---- MODULE Spec2Model ----
(***************************************************************************)
(* Model of packages/plugin-typescript/sources/index.ts: the hooks the     *)
(* TypeScript plugin registers with the package manager.                   *)
(*                                                                         *)
(*   afterAllInstalled                 the project-reference synchronizer  *)
(*   afterWorkspaceDependencyAddition  the companion (@types) reconciler   *)
(*   afterWorkspaceDependencyRemoval   its removal path                    *)
(*   beforeWorkspacePacking            the publish adjuster                *)
(*                                                                         *)
(* Spec      is the synchronizer: passes over the workspaces' tsconfig     *)
(*           documents, with dependency removals between the passes.       *)
(* SpecDeps  is the reconciler: add and remove commands on the manifests.  *)
(* SpecPack  is the publish adjuster: packings of a raw manifest payload.  *)
(***************************************************************************)
EXTENDS Integers, Sequences, FiniteSets, TLC

VARIABLES
    dependencies,  \* workspace.dependencies: workspace -> ident -> range
    tsconfig,      \* the tsconfig.json on disk of each workspace
    running,       \* TRUE while afterAllInstalled is inside its loop
    idx,           \* position of the loop in project.workspaces
    written,       \* workspaces whose document this pass has written
    docsBefore,    \* the documents on disk when the pass began
    outcome,       \* how the last pass ended: "none", "completed", "failed"
    passes,        \* number of passes started
    clean,         \* nothing has changed since the last pass completed
    repeat,        \* this pass began with `clean` set: it repeats a completed pass
    prevWritten,   \* what the pass before this one had written
    removedDeps,   \* local edges <<A, B>> removed after a completed pass
    manifest,      \* workspace.manifest: workspace -> kind -> set of descriptors
    pre,           \* the manifests when the last hook began
    last,          \* the last hook invocation: its arguments, queries and result
    events,        \* number of hook invocations so far
    rawManifest,   \* the raw manifest payload handed to beforeWorkspacePacking
    rawBefore,     \* the payload when the last packing began
    packs          \* number of packings so far

syncVars == <<dependencies, tsconfig, running, idx, written, docsBefore,
              outcome, passes, clean, repeat, prevWritten, removedDeps>>

depVars == <<manifest, pre, last, events>>

packVars == <<rawManifest, rawBefore, packs>>

vars == <<syncVars, depVars, packVars>>

-----------------------------------------------------------------------------
(* Bounds of the model. *)

\* Passes of the synchronizer in one behaviour.
MaxPasses == 2
\* Entries of the subject workspace's dependencies in the initial state.
MaxDeps == 2
\* Entries of a `references` list found on disk in the initial state.
MaxRefs == 2
\* Packings of one payload in one behaviour.
MaxPacks == 2
\* Hook invocations (add and remove commands) in one behaviour.
MaxEvents == 2

-----------------------------------------------------------------------------
(* The project: workspaces, their root directories, dependency descriptors. *)

\* project.workspaces, in its iteration order.
WorkspaceOrder == <<"a", "b", "c">>

Workspaces == {WorkspaceOrder[i] : i \in 1..Len(WorkspaceOrder)}

\* workspace.cwd, as path segments below the project root.
Cwd(w) ==
    CASE w = "a" -> <<"packages", "a">>
      [] w = "b" -> <<"packages", "b">>
      [] w = "c" -> <<"libs", "c">>

\* The idents a dependency can name: the workspaces and one registry package.
\* A Map keyed by identHash holds each ident at most once; the model iterates
\* it in this fixed order.
IdentOrder == <<"a", "b", "c", "lodash">>

DepIdents == {IdentOrder[i] : i \in 1..Len(IdentOrder)}

NoDep == "-"

\* Ranges of a descriptor: the workspace protocol, a registry range, and the
\* virtual form of the workspace range that a resolved package carries.
WorkspaceRange == "workspace:*"
RegistryRange == "npm:^1.0.0"
VirtualRange == "virtual:workspace:*"

Ranges == {WorkspaceRange, RegistryRange, VirtualRange}

\* structUtils.isVirtualDescriptor / devirtualizeDescriptor (lines 135-136).
Devirtualize(range) == IF range = VirtualRange THEN WorkspaceRange ELSE range

\* project.tryWorkspaceByIdent and workspace.accepts: a workspace is found by
\* ident, and accepts the workspace protocol but not a registry range.
NoWorkspace == "null"

TryWorkspaceByDescriptor(ident, range) ==
    LET r == Devirtualize(range)
        workspace == IF ident \in Workspaces THEN ident ELSE NoWorkspace
    IN  IF workspace = NoWorkspace \/ r # WorkspaceRange
        THEN NoWorkspace
        ELSE workspace

\* ppath.relative(from, to): up out of what is left of `from` after the common
\* prefix, then down what is left of `to`.
CommonPrefix(p, q) ==
    LET n == IF Len(p) < Len(q) THEN Len(p) ELSE Len(q)
        agree == {k \in 0..n : \A i \in 1..k : p[i] = q[i]}
    IN  CHOOSE k \in agree : \A j \in agree : j <= k

Relative(from, to) ==
    LET k == CommonPrefix(from, to)
    IN  [i \in 1..(Len(from) - k) |-> ".."] \o SubSeq(to, k + 1, Len(to))

-----------------------------------------------------------------------------
(* The tsconfig document. *)

\* What the rest of the document holds: nothing, or the user's own settings.
NoContent == "{}"
UserContent == "compilerOptions"

\* The `references` field: undefined, or an array of {path} entries.
Undefined == [defined |-> FALSE, paths |-> <<>>]
RefArray(paths) == [defined |-> TRUE, paths |-> paths]

\* A file that is not there, a file that does not parse, and a JSON object with
\* an optional `references` array and the rest of its content.
Missing == [file |-> "missing", references |-> Undefined, other |-> NoContent]
Unparsable == [file |-> "unparsable", references |-> Undefined, other |-> NoContent]
Document(refs, other) == [file |-> "json", references |-> refs, other |-> other]

\* The paths of a references value (tsconfig.references?.map(ref => ref.path)).
RefPaths(refs) == {refs.paths[i] : i \in 1..Len(refs.paths)}

RECURSIVE MapAndFilter(_, _, _)
\* miscUtils.mapAndFilter over workspace.dependencies (lines 150-156).
MapAndFilter(w, deps, i) ==
    IF i > Len(IdentOrder) THEN <<>>
    ELSE LET ident == IdentOrder[i]
             dependingWorkspace ==
                 IF deps[ident] = NoDep THEN NoWorkspace
                 ELSE TryWorkspaceByDescriptor(ident, deps[ident])
             rest == MapAndFilter(w, deps, i + 1)
         IN  IF dependingWorkspace = NoWorkspace \/ dependingWorkspace = w
             THEN rest
             ELSE <<Relative(Cwd(w), Cwd(dependingWorkspace))>> \o rest

ReferencedWorkspaces(w, deps) == MapAndFilter(w, deps, 1)

\* xfs.readJsonPromise inside try/catch (lines 158-165): the object read, or
\* the empty object and configChanged set.
ReadTsconfig(doc) ==
    IF doc.file = "json"
    THEN [tsconfig |-> [references |-> doc.references, other |-> doc.other],
          configChanged |-> FALSE]
    ELSE [tsconfig |-> [references |-> Undefined, other |-> NoContent],
          configChanged |-> TRUE]

\* Lines 167-171: the workspace references no other workspace.
ClearReferences(read) ==
    IF read.tsconfig.references.defined
    THEN [tsconfig |-> [read.tsconfig EXCEPT !.references = Undefined],
          configChanged |-> TRUE]
    ELSE read

\* The test of line 178 inverted: marked changed when a path is among the old.
RebuildReferences_Inverted(read, referencedWorkspaces) ==
    LET oldReferences == RefPaths(read.tsconfig.references)
        kept == \E i \in 1..Len(referencedWorkspaces) :
                    referencedWorkspaces[i] \in oldReferences
    IN  [tsconfig |-> [read.tsconfig EXCEPT
                           !.references = RefArray(referencedWorkspaces)],
         configChanged |-> read.configChanged \/ kept]

\* Lines 172-183: the list is rebuilt, and marked changed when a path of it is
\* not among the old ones.
RebuildReferences(read, referencedWorkspaces) ==
    LET oldReferences == RefPaths(read.tsconfig.references)
        added == \E i \in 1..Len(referencedWorkspaces) :
                     referencedWorkspaces[i] \notin oldReferences
    IN  [tsconfig |-> [read.tsconfig EXCEPT
                           !.references = RefArray(referencedWorkspaces)],
         configChanged |-> read.configChanged \/ added]

\* Lines 167-183.
UpdateReferences(read, referencedWorkspaces) ==
    IF Len(referencedWorkspaces) = 0
    THEN ClearReferences(read)
    ELSE RebuildReferences(read, referencedWorkspaces)

\* A document holding the `references` field alone is written.
WriteTsconfig_ReferencesOnly(t) == Document(t.references, NoContent)

\* xfs.writeJsonPromise (line 186): JSON.stringify drops an undefined field.
WriteTsconfig(t) == Document(t.references, t.other)

-----------------------------------------------------------------------------
(* Initial states of the synchronizer: one workspace, the subject, has any  *)
(* dependencies and any document; the other workspaces have no             *)
(* dependencies and documents that are all missing or all without          *)
(* references.                                                             *)

\* The ranges a dependency on `ident` may carry.
RangesOf(ident) == IF ident \in Workspaces THEN Ranges ELSE {RegistryRange}

NoDependencies == [i \in DepIdents |-> NoDep]

DependencyMaps ==
    {d \in [DepIdents -> Ranges \cup {NoDep}] :
        /\ \A i \in DepIdents : d[i] # NoDep => d[i] \in RangesOf(i)
        /\ Cardinality({i \in DepIdents : d[i] # NoDep}) <= MaxDeps}

\* Paths a references list on disk may hold: to the other workspaces, and to a
\* directory that is no workspace (any more).
StalePath == <<"..", "gone">>

KnownPaths(w) ==
    {Relative(Cwd(w), Cwd(x)) : x \in Workspaces \ {w}} \cup {StalePath}

RefLists(w) ==
    UNION {[1..n -> KnownPaths(w)] : n \in 0..MaxRefs}

Documents(w) ==
    {Missing, Unparsable}
        \cup {Document(r, o) : r \in {RefArray(l) : l \in RefLists(w)} \cup {Undefined},
                               o \in {NoContent, UserContent}}

InitSync ==
    /\ \E subject \in Workspaces :
        /\ \E d \in DependencyMaps :
               dependencies = [w \in Workspaces |->
                                  IF w = subject THEN d ELSE NoDependencies]
        /\ \E doc \in Documents(subject),
              rest \in {Missing, Document(Undefined, UserContent)} :
               tsconfig = [w \in Workspaces |-> IF w = subject THEN doc ELSE rest]
    /\ running = FALSE
    /\ idx = 1
    /\ written = {}
    /\ docsBefore = tsconfig
    /\ outcome = "none"
    /\ passes = 0
    /\ clean = FALSE
    /\ repeat = FALSE
    /\ prevWritten = {}
    /\ removedDeps = {}


-----------------------------------------------------------------------------
(* afterAllInstalled (lines 148-189). *)

\* The hook is called: the loop over project.workspaces begins.
BeginPass ==
    /\ ~running
    /\ passes < MaxPasses
    /\ running' = TRUE
    /\ idx' = 1
    /\ written' = {}
    /\ docsBefore' = tsconfig
    /\ passes' = passes + 1
    /\ repeat' = clean
    /\ prevWritten' = written
    /\ UNCHANGED <<dependencies, tsconfig, outcome, clean, removedDeps>>
    /\ UNCHANGED <<depVars, packVars>>

\* One iteration of the loop; when the document is marked changed it is
\* written, and the write succeeds or throws out of the hook.
SyncWorkspace ==
    /\ running
    /\ idx <= Len(WorkspaceOrder)
    /\ LET w == WorkspaceOrder[idx]
           read == ReadTsconfig(tsconfig[w])
           upd == UpdateReferences(read, ReferencedWorkspaces(w, dependencies[w]))
       IN  IF upd.configChanged
           THEN /\ written' = written \cup {w}
                /\ \/ /\ tsconfig' = [tsconfig EXCEPT ![w] = WriteTsconfig(upd.tsconfig)]
                      /\ idx' = idx + 1
                      /\ UNCHANGED <<running, outcome, clean>>
                   \/ /\ running' = FALSE
                      /\ outcome' = "failed"
                      /\ clean' = FALSE
                      /\ UNCHANGED <<tsconfig, idx>>
           ELSE /\ idx' = idx + 1
                /\ UNCHANGED <<tsconfig, written, running, outcome, clean>>
    /\ UNCHANGED <<dependencies, docsBefore, passes, repeat, prevWritten, removedDeps>>
    /\ UNCHANGED <<depVars, packVars>>

\* The loop has visited every workspace: the hook returns.
EndPass ==
    /\ running
    /\ idx > Len(WorkspaceOrder)
    /\ running' = FALSE
    /\ outcome' = "completed"
    /\ clean' = TRUE
    /\ UNCHANGED <<dependencies, tsconfig, idx, written, docsBefore, passes,
                   repeat, prevWritten, removedDeps>>
    /\ UNCHANGED <<depVars, packVars>>

\* Between two passes a dependency is removed from a workspace.
RemoveEdge ==
    /\ ~running
    /\ outcome # "none"
    /\ \E w \in Workspaces, i \in DepIdents :
        /\ dependencies[w][i] # NoDep
        /\ dependencies' = [dependencies EXCEPT ![w][i] = NoDep]
        /\ removedDeps' =
               IF outcome = "completed"
                  /\ TryWorkspaceByDescriptor(i, dependencies[w][i]) \notin {NoWorkspace, w}
               THEN removedDeps \cup {<<w, i>>}
               ELSE removedDeps
    /\ clean' = FALSE
    /\ UNCHANGED <<tsconfig, running, idx, written, docsBefore, outcome, passes,
                   repeat, prevWritten>>
    /\ UNCHANGED <<depVars, packVars>>

NextSync == BeginPass \/ SyncWorkspace \/ EndPass \/ RemoveEdge

-----------------------------------------------------------------------------
(* Idents, ranges and descriptors of the reconciler. *)

NoScope == ""
CompanionScope == "types"

\* structUtils.makeIdent, structUtils.makeDescriptor.
MakeIdent(scope, name) == [scope |-> scope, name |-> name]
MakeDescriptor(ident, range) == [ident |-> ident, range |-> range]

\* A range is its sequence of tokens: "^2.0.0" is <<"^", "2", "0", "0">>, the
\* tag "latest" is <<"latest">>, a reference "npm:3.1.0" is <<"npm:", "3", "1", "0">>.
Numerals == {"0", "1", "2", "3", "4", "5", "6", "7", "8", "9"}
Protocols == {"npm:"}
Caret == "^"

\* structUtils.parseRange(range).selector (lines 43, 47).
ParseRangeSelector(range) ==
    IF Len(range) > 0 /\ range[1] \in Protocols THEN Tail(range) ELSE range

\* semver.validRange (line 45): an optional operator and one to three numbers,
\* or the wildcard; a tag is no range.
ValidRange(selector) ==
    \/ selector = <<"*">>
    \/ /\ Len(selector) >= 1
       /\ LET body == IF selector[1] \in {Caret, "~"} THEN Tail(selector) ELSE selector
          IN  /\ Len(body) \in 1..3
              /\ \A i \in 1..Len(body) : body[i] \in Numerals

\* semver.coerce (line 50): the version that starts at the first number of the
\* string, or null when it holds none.
Coerce(selector) ==
    LET digits == {i \in 1..Len(selector) : selector[i] \in Numerals}
    IN  IF digits = {}
        THEN [null |-> TRUE, major |-> "", minor |-> ""]
        ELSE LET first == CHOOSE i \in digits : \A j \in digits : i <= j
             IN  [null |-> FALSE,
                  major |-> selector[first],
                  minor |-> IF first + 1 \in digits THEN selector[first + 1] ELSE "0"]

\* The range of line 54 built from the minor version.
CoercedRange_Minor(semverRange) == <<Caret, semverRange.minor>>

\* Line 54: `${suggestUtils.Modifier.CARET}${semverRange.major}`.
CoercedRange(semverRange) == <<Caret, semverRange.major>>

\* getTypesName (lines 11-15).
GetTypesName(ident) ==
    IF ident.scope # NoScope
    THEN ident.scope \o "__" \o ident.name
    ELSE ident.name

\* The companion ident of an ident (lines 41, 55 and 109-111).
TypesIdent(ident) == MakeIdent(CompanionScope, GetTypesName(ident))

\* The test of lines 23 and 106 made on the name instead of the scope.
InCompanionScope_ByName(descriptor) == descriptor.ident.name = CompanionScope

\* Lines 23 and 106: descriptor.scope === `types`.
InCompanionScope(descriptor) == descriptor.ident.scope = CompanionScope

\* Manifest.allDependencies: the kinds of dependency collection of a manifest.
AllDependencies ==
    <<"dependencies", "devDependencies", "peerDependencies", "optionalDependencies">>

Kinds == {AllDependencies[i] : i \in 1..Len(AllDependencies)}

\* suggestUtils.Target.DEVELOPMENT (line 97).
Development == "devDependencies"

\* A collection is a Map from identHash to descriptor: a set of descriptors with
\* at most one per ident.
Has(collection, ident) == \E e \in collection : e.ident = ident
Get(collection, ident) == CHOOSE e \in collection : e.ident = ident
SetEntry(collection, descriptor) ==
    {e \in collection : e.ident # descriptor.ident} \cup {descriptor}
DeleteEntry(collection, ident) == {e \in collection : e.ident # ident}

\* The descriptorHash of the entry under the descriptor's ident is the
\* descriptor's (lines 58-62): the very descriptor is in the collection.
SameDescriptorIn(collection, descriptor) == descriptor \in collection

-----------------------------------------------------------------------------
(* The external collaborators' answers to one hook invocation. *)

\* resolver.getCandidates: it throws, or returns a list of packages.
Throws == [throws |-> TRUE, candidates |-> <<>>]
Candidates(list) == [throws |-> FALSE, candidates |-> list]

ResolvedReference == <<"npm:", "3", "1", "0">>

ResolverOutcomes ==
    {Throws, Candidates(<<>>), Candidates(<<[reference |-> ResolvedReference]>>)}

\* hasDefinitelyTyped (line 36), and the two resolver queries (lines 46, 89).
Answers ==
    {a \in [definitelyTyped : BOOLEAN, original : ResolverOutcomes,
            companion : ResolverOutcomes] :
        ~a.definitelyTyped => (a.original = Throws /\ a.companion = Throws)}

\* The resolver is asked about an original only to resolve a tag (line 45).
AnswersFor(descriptor) ==
    {a \in Answers :
        ValidRange(ParseRangeSelector(descriptor.range)) => a.original = Throws}

QueryTypes == "hasDefinitelyTyped"
QueryOriginal == "getCandidates(original)"
QueryCompanion == "getCandidates(companion)"

-----------------------------------------------------------------------------
(* afterWorkspaceDependencyAddition (lines 17-99). *)

Result(m, result, queries, path) ==
    [manifest |-> m, result |-> result, queries |-> queries, path |-> path]

\* Lines 43-48: the selector of the range, a tag resolved through the resolver.
\* originalCandidates[0] of an empty list is undefined: reading its reference
\* throws, as does the resolver's own failure.
ResolveSelector(descriptor, original) ==
    LET selector == ParseRangeSelector(descriptor.range)
    IN  IF ValidRange(selector)
        THEN [threw |-> FALSE, asked |-> FALSE, selector |-> selector]
        ELSE IF original.throws \/ Len(original.candidates) = 0
             THEN [threw |-> TRUE, asked |-> TRUE, selector |-> selector]
             ELSE [threw |-> FALSE, asked |-> TRUE,
                   selector |-> ParseRangeSelector(original.candidates[1].reference)]

RECURSIVE AtTypesDependencies(_, _, _)
\* Lines 65-73: the workspace's entries under the companion ident, kind by kind.
AtTypesDependencies(wsManifest, atTypesIdent, i) ==
    IF i > Len(AllDependencies) THEN <<>>
    ELSE LET type == AllDependencies[i]
             rest == AtTypesDependencies(wsManifest, atTypesIdent, i + 1)
         IN  IF ~Has(wsManifest[type], atTypesIdent)
             THEN rest
             ELSE <<[type |-> type, descriptor |-> Get(wsManifest[type], atTypesIdent)]>>
                      \o rest

\* The callback of lines 57-80 on one workspace: skip, or its companion entries.
Suggestion(wsManifest, descriptor, atTypesIdent) ==
    IF /\ ~SameDescriptorIn(wsManifest["dependencies"], descriptor)
       /\ ~SameDescriptorIn(wsManifest["devDependencies"], descriptor)
    THEN <<>>
    ELSE AtTypesDependencies(wsManifest, atTypesIdent, 1)

RECURSIVE MapAndFind(_, _, _, _)
\* miscUtils.mapAndFind over project.workspaces (lines 57-80): the value of the
\* first workspace the callback does not skip, or undefined.
MapAndFind(m, descriptor, atTypesIdent, i) ==
    IF i > Len(WorkspaceOrder)
    THEN [found |-> FALSE, workspace |-> NoWorkspace, value |-> <<>>]
    ELSE LET s == Suggestion(m[WorkspaceOrder[i]], descriptor, atTypesIdent)
         IN  IF Len(s) = 0
             THEN MapAndFind(m, descriptor, atTypesIdent, i + 1)
             ELSE [found |-> TRUE, workspace |-> WorkspaceOrder[i], value |-> s]

ProjectSuggestions(m, descriptor, atTypesIdent) ==
    MapAndFind(m, descriptor, atTypesIdent, 1)

RECURSIVE SetAll(_, _, _, _)
SetAll(m, workspace, entries, i) ==
    IF i > Len(entries) THEN m
    ELSE SetAll([m EXCEPT ![workspace][entries[i].type] =
                              SetEntry(@, entries[i].descriptor)],
                workspace, entries, i + 1)

\* Every suggested kind set to the freshly computed descriptor.
Propagate_Fresh(m, workspace, projectSuggestions, atTypesDescriptor) ==
    SetAll(m, workspace,
           [i \in 1..Len(projectSuggestions) |->
               [type |-> projectSuggestions[i].type, descriptor |-> atTypesDescriptor]],
           1)

\* Lines 82-85: each suggested entry is set in the workspace under its kind; the
\* loop variable shadows the computed atTypesDescriptor.
Propagate(m, workspace, projectSuggestions, atTypesDescriptor) ==
    SetAll(m, workspace, projectSuggestions, 1)

\* Only a throwing query counts as a failed probe.
ProbeFails_ThrowOnly(companion) == companion.throws

\* Lines 88-95: the probe fails when the resolver throws or finds no candidate.
ProbeFails(companion) == companion.throws \/ Len(companion.candidates) = 0

\* The companion set under the kind the original was added to.
AddFresh_UnderTarget(m, workspace, dependencyTarget, atTypesDescriptor) ==
    [m EXCEPT ![workspace][dependencyTarget] = SetEntry(@, atTypesDescriptor)]

\* Line 97: the companion is set in the development collection.
AddFresh(m, workspace, dependencyTarget, atTypesDescriptor) ==
    [m EXCEPT ![workspace][Development] = SetEntry(@, atTypesDescriptor)]

\* The resolver is asked about the companion before the suggestions are looked at.
Reconcile_ProbeFirst(m, workspace, dependencyTarget, atTypesDescriptor, projectSuggestions, companion, q1) ==
    IF ProbeFails(companion)
    THEN Result(m, "returned", q1 \o <<QueryCompanion>>, "unresolvable")
    ELSE IF projectSuggestions.found
    THEN Result(Propagate(m, workspace, projectSuggestions.value, atTypesDescriptor),
                "returned", q1 \o <<QueryCompanion>>, "propagated")
    ELSE Result(AddFresh(m, workspace, dependencyTarget, atTypesDescriptor),
                "returned", q1 \o <<QueryCompanion>>, "fresh")

\* The suggested entries are set under the kind the original was added to.
Reconcile_UnderTarget(m, workspace, dependencyTarget, atTypesDescriptor, projectSuggestions, companion, q1) ==
    IF projectSuggestions.found
    THEN Result(SetAll(m, workspace,
                       [i \in 1..Len(projectSuggestions.value) |->
                           [type |-> dependencyTarget,
                            descriptor |-> projectSuggestions.value[i].descriptor]],
                       1),
                "returned", q1, "propagated")
    ELSE IF ProbeFails(companion)
    THEN Result(m, "returned", q1 \o <<QueryCompanion>>, "unresolvable")
    ELSE Result(AddFresh(m, workspace, dependencyTarget, atTypesDescriptor),
                "returned", q1 \o <<QueryCompanion>>, "fresh")

\* Lines 82-98: the suggestions of the scan are propagated; only without any
\* is the resolver asked about the companion, which is then added afresh.
Reconcile(m, workspace, dependencyTarget, atTypesDescriptor, projectSuggestions, companion, q1) ==
    IF projectSuggestions.found
    THEN Result(Propagate(m, workspace, projectSuggestions.value, atTypesDescriptor),
                "returned", q1, "propagated")
    ELSE IF ProbeFails(companion)
    THEN Result(m, "returned", q1 \o <<QueryCompanion>>, "unresolvable")
    ELSE Result(AddFresh(m, workspace, dependencyTarget, atTypesDescriptor),
                "returned", q1 \o <<QueryCompanion>>, "fresh")

\* The whole hook: the manifests it leaves, whether it returned or threw, the
\* queries it made, and the path it took.
AfterWorkspaceDependencyAddition(m, workspace, dependencyTarget, descriptor, ans) ==
    IF InCompanionScope(descriptor)
    THEN Result(m, "returned", <<>>, "companion-scope")
    ELSE IF ~ans.definitelyTyped
    THEN Result(m, "returned", <<QueryTypes>>, "bundled")
    ELSE
    LET resolved == ResolveSelector(descriptor, ans.original)
        q1 == <<QueryTypes>> \o (IF resolved.asked THEN <<QueryOriginal>> ELSE <<>>)
        semverRange == Coerce(resolved.selector)
    IN  IF resolved.threw
        THEN Result(m, "threw", q1, "unresolved")
        ELSE IF semverRange.null
        THEN Result(m, "returned", q1, "no-range")
        ELSE
        LET atTypesDescriptor ==
                MakeDescriptor(TypesIdent(descriptor.ident), CoercedRange(semverRange))
            projectSuggestions ==
                ProjectSuggestions(m, descriptor, atTypesDescriptor.ident)
        IN  Reconcile(m, workspace, dependencyTarget, atTypesDescriptor,
                      projectSuggestions, ans.companion, q1)

-----------------------------------------------------------------------------
(* afterWorkspaceDependencyRemoval (lines 101-121). *)

RECURSIVE DeleteAll_FirstOnly(_, _, _, _)
\* The loop ends at the first kind that holds the ident.
DeleteAll_FirstOnly(m, workspace, ident, i) ==
    IF i > Len(AllDependencies) THEN m
    ELSE LET type == AllDependencies[i]
         IN  IF Has(m[workspace][type], ident)
             THEN [m EXCEPT ![workspace][type] = DeleteEntry(@, ident)]
             ELSE DeleteAll_FirstOnly(m, workspace, ident, i + 1)

RECURSIVE DeleteAll(_, _, _, _)
\* The loop of lines 113-120 from the i-th kind on.
DeleteAll(m, workspace, ident, i) ==
    IF i > Len(AllDependencies) THEN m
    ELSE LET type == AllDependencies[i]
         IN  DeleteAll(IF Has(m[workspace][type], ident)
                       THEN [m EXCEPT ![workspace][type] = DeleteEntry(@, ident)]
                       ELSE m,
                       workspace, ident, i + 1)

\* The companion deleted only from the kind the original was removed from.
RemoveCompanion_UnderTarget(m, workspace, dependencyTarget, ident) ==
    [m EXCEPT ![workspace][dependencyTarget] = DeleteEntry(@, ident)]

\* Lines 113-120: the companion ident is deleted from every kind that holds it.
RemoveCompanion(m, workspace, dependencyTarget, ident) ==
    DeleteAll(m, workspace, ident, 1)

\* The companion is kept while another workspace holds the original.
AfterWorkspaceDependencyRemoval_UnlessShared(m, workspace, dependencyTarget, descriptor) ==
    IF InCompanionScope(descriptor)
    THEN Result(m, "returned", <<>>, "companion-scope")
    ELSE IF \E s \in Workspaces \ {workspace}, k \in Kinds :
                Has(m[s][k], descriptor.ident)
    THEN Result(m, "returned", <<>>, "shared")
    ELSE Result(RemoveCompanion(m, workspace, dependencyTarget,
                                TypesIdent(descriptor.ident)),
                "returned", <<>>, "removed")

AfterWorkspaceDependencyRemoval(m, workspace, dependencyTarget, descriptor) ==
    IF InCompanionScope(descriptor)
    THEN Result(m, "returned", <<>>, "companion-scope")
    ELSE Result(RemoveCompanion(m, workspace, dependencyTarget,
                                TypesIdent(descriptor.ident)),
                "returned", <<>>, "removed")

-----------------------------------------------------------------------------
(* Initial manifests of the reconciler. *)

Foo == MakeIdent(NoScope, "foo")
AcmeBar == MakeIdent("acme", "bar")

CaretRange == <<Caret, "2", "0", "0">>
TagRange == <<"latest">>
StarRange == <<"*">>

EmptyManifest == [k \in Kinds |-> {}]

\* What the package.json of one workspace may hold.
Profiles ==
    LET foo(range) == MakeDescriptor(Foo, range)
        types(range) == MakeDescriptor(TypesIdent(Foo), range)
    IN  { EmptyManifest,
          [EmptyManifest EXCEPT !["dependencies"] = {foo(CaretRange)}],
          [EmptyManifest EXCEPT !["devDependencies"] =
                                    {foo(CaretRange), types(<<Caret, "1", "5">>)}],
          [EmptyManifest EXCEPT !["dependencies"] =
                                    {foo(CaretRange), types(<<Caret, "1">>)},
                                !["peerDependencies"] = {types(<<Caret, "1", "5">>)}],
          [EmptyManifest EXCEPT !["dependencies"] = {foo(TagRange)}],
          [EmptyManifest EXCEPT !["devDependencies"] =
                                    {foo(TagRange), types(<<Caret, "1", "5">>)}],
          [EmptyManifest EXCEPT !["devDependencies"] = {foo(StarRange)},
                                !["optionalDependencies"] = {types(<<Caret, "1", "5">>)}],
          [EmptyManifest EXCEPT !["peerDependencies"] =
                                    {foo(CaretRange), types(<<Caret, "1">>)},
                                !["dependencies"] = {types(<<Caret, "1">>)},
                                !["devDependencies"] = {types(<<Caret, "2">>)},
                                !["optionalDependencies"] = {types(<<Caret, "1", "5">>)}],
          [EmptyManifest EXCEPT !["dependencies"] =
                                    {MakeDescriptor(AcmeBar, <<Caret, "1", "0", "0">>)}] }

NoEvent ==
    [op |-> "none", workspace |-> NoWorkspace, target |-> "",
     descriptor |-> MakeDescriptor(MakeIdent(NoScope, ""), <<>>),
     answers |-> [definitelyTyped |-> FALSE, original |-> Throws, companion |-> Throws],
     result |-> "", queries |-> <<>>, path |-> ""]

InitDeps ==
    /\ manifest \in [Workspaces -> Profiles]
    /\ pre = manifest
    /\ last = NoEvent
    /\ events = 0

\* The answers a hook did not ask for are no part of what happened.
Asked(ans, queries) ==
    LET asked == {queries[i] : i \in 1..Len(queries)}
    IN  [definitelyTyped |-> QueryTypes \in asked /\ ans.definitelyTyped,
         original |-> IF QueryOriginal \in asked THEN ans.original ELSE Throws,
         companion |-> IF QueryCompanion \in asked THEN ans.companion ELSE Throws]

\* `yarn add` has put the descriptor into the workspace's collection of the
\* target kind, and the hook runs.
AddDependency ==
    /\ events < MaxEvents
    /\ \E w \in Workspaces, k \in Kinds :
        \E d \in manifest[w][k] : \E ans \in AnswersFor(d) :
            \E r \in {AfterWorkspaceDependencyAddition(manifest, w, k, d, ans)} :
                /\ ans = Asked(ans, r.queries)
                /\ manifest' = r.manifest
                /\ pre' = manifest
                /\ last' = [op |-> "add", workspace |-> w, target |-> k,
                            descriptor |-> d, answers |-> ans,
                            result |-> r.result, queries |-> r.queries,
                            path |-> r.path]
    /\ events' = events + 1
    /\ UNCHANGED <<syncVars, packVars>>

\* `yarn remove` takes the descriptor out of the workspace's collection of the
\* target kind, and the hook runs.
RemoveDependency ==
    /\ events < MaxEvents
    /\ \E w \in Workspaces, k \in Kinds :
        \E d \in manifest[w][k] :
            \E removed \in {[manifest EXCEPT ![w][k] = DeleteEntry(@, d.ident)]} :
            \E r \in {AfterWorkspaceDependencyRemoval(removed, w, k, d)} :
                /\ manifest' = r.manifest
                /\ pre' = removed
                /\ last' = [op |-> "remove", workspace |-> w, target |-> k,
                            descriptor |-> d, answers |-> NoEvent.answers,
                            result |-> r.result, queries |-> r.queries,
                            path |-> r.path]
    /\ events' = events + 1
    /\ UNCHANGED <<syncVars, packVars>>

NextDeps == AddDependency \/ RemoveDependency

-----------------------------------------------------------------------------
(* The publish adjuster. *)

\* A field the payload does not hold reads as undefined.
Absent == "<undefined>"

\* What a `typings` or `types` field may hold; the empty string is a value
\* JavaScript takes for false.
FieldValues == {Absent, "", "lib/index.d.ts", "dist/index.d.ts"}

\* The truthiness tests of lines 124 and 127.
Truthy(value) == value \notin {Absent, ""}

NoPublishConfig == [present |-> FALSE, typings |-> Absent, types |-> Absent]

PublishConfigs ==
    {NoPublishConfig} \cup
    [present : {TRUE}, typings : FieldValues, types : FieldValues]

\* rawManifest: its two declaration fields and its publish-override section.
Payloads == [typings : FieldValues, types : FieldValues, publishConfig : PublishConfigs]

NoPayload == [typings |-> Absent, types |-> Absent, publishConfig |-> NoPublishConfig]

\* beforeWorkspacePacking (lines 123-130).
BeforeWorkspacePacking(raw) ==
    LET withTypings ==
            IF raw.publishConfig.present /\ Truthy(raw.publishConfig.typings)
            THEN [raw EXCEPT !.typings = raw.publishConfig.typings]
            ELSE raw
    IN  IF withTypings.publishConfig.present /\ Truthy(withTypings.publishConfig.types)
        THEN [withTypings EXCEPT !.types = withTypings.publishConfig.types]
        ELSE withTypings

InitPack ==
    /\ rawManifest \in Payloads
    /\ rawBefore = rawManifest
    /\ packs = 0

\* The sections of the model a specification leaves at rest.
IdlePack ==
    /\ rawManifest = NoPayload
    /\ rawBefore = rawManifest
    /\ packs = 0

\* `yarn pack` hands the payload to the hook.
Pack ==
    /\ packs < MaxPacks
    /\ rawBefore' = rawManifest
    /\ rawManifest' = BeforeWorkspacePacking(rawManifest)
    /\ packs' = packs + 1
    /\ UNCHANGED <<syncVars, depVars>>

NextPack == Pack

-----------------------------------------------------------------------------
(* The specifications. *)

\* The synchronizer, on a project whose manifests do not change.
Init ==
    /\ InitSync
    /\ manifest = [w \in Workspaces |-> EmptyManifest]
    /\ pre = manifest
    /\ last = NoEvent
    /\ events = 0
    /\ IdlePack

Next == NextSync

Spec == Init /\ [][Next]_vars

\* The reconciler, with no synchronizer pass under way.
IdleSync ==
    /\ dependencies = [w \in Workspaces |-> NoDependencies]
    /\ tsconfig = [w \in Workspaces |-> Missing]
    /\ running = FALSE
    /\ idx = 1
    /\ written = {}
    /\ docsBefore = tsconfig
    /\ outcome = "none"
    /\ passes = 0
    /\ clean = FALSE
    /\ repeat = FALSE
    /\ prevWritten = {}
    /\ removedDeps = {}

InitReconciler ==
    /\ InitDeps
    /\ IdleSync
    /\ IdlePack

SpecDeps == InitReconciler /\ [][NextDeps]_vars

\* The publish adjuster, on any payload.
InitPacker ==
    /\ InitPack
    /\ IdleSync
    /\ manifest = [w \in Workspaces |-> EmptyManifest]
    /\ pre = manifest
    /\ last = NoEvent
    /\ events = 0

SpecPack == InitPacker /\ [][NextPack]_vars

-----------------------------------------------------------------------------
(* Properties of the synchronizer. *)

\* The other local workspaces w directly depends on.
LocalDependencies(w) ==
    {x \in Workspaces \ {w} :
        /\ dependencies[w][x] # NoDep
        /\ TryWorkspaceByDescriptor(x, dependencies[w][x]) = x}

ExpectedPaths(w) == {Relative(Cwd(w), Cwd(x)) : x \in LocalDependencies(w)}

NoDuplicates(seq) == \A i, j \in 1..Len(seq) : seq[i] = seq[j] => i = j

\* A pass has completed and nothing has changed since.
Synchronized == ~running /\ outcome = "completed" /\ clean

\* The workspaces the current (or last) pass has been through.
Processed ==
    {WorkspaceOrder[i] : i \in 1..(idx - 1)}
        \cup (IF ~running /\ outcome = "failed" THEN {WorkspaceOrder[idx]} ELSE {})

\* C1: after a pass in which every write succeeded, the references list on disk
\* of every workspace is exactly the set of relative paths to the other local
\* workspaces it depends on: nothing stale, nothing twice, nothing non-local.
C1_ReferencesMirrorDependencies ==
    Synchronized =>
        \A w \in Workspaces :
            /\ tsconfig[w].file = "json"
            /\ RefPaths(tsconfig[w].references) = ExpectedPaths(w)
            /\ NoDuplicates(tsconfig[w].references.paths)

\* C2: after a pass, A's references list holds the path to every local
\* workspace B that A depends on, and no longer holds the path to a B whose
\* dependency was removed after an earlier completed pass.
C2_RemovedDependencyLeavesReferences ==
    Synchronized =>
        \A A, B \in Workspaces :
            /\ B \in LocalDependencies(A) =>
                   Relative(Cwd(A), Cwd(B)) \in RefPaths(tsconfig[A].references)
            /\ (<<A, B>> \in removedDeps /\ B \notin LocalDependencies(A)) =>
                   Relative(Cwd(A), Cwd(B)) \notin RefPaths(tsconfig[A].references)

\* C3: a pass that repeats a completed pass, with no change to dependencies or
\* documents in between, writes no document.
C3_SecondPassWritesNothing == repeat => written = {}

\* A repeating pass has completed after a first pass that did write.
C3_Witness ==
    /\ repeat /\ ~running /\ outcome = "completed"
    /\ prevWritten # {}
    /\ \E w \in Workspaces : ExpectedPaths(w) # {}

\* C4: a pass writes a workspace's document if and only if the set of paths of
\* its existing references list differs from the computed set, or the document
\* could not be read.
C4_WrittenIffDiffers ==
    (running \/ Synchronized) =>
        \A w \in Processed :
            w \in written <=>
                \/ docsBefore[w].file # "json"
                \/ RefPaths(docsBefore[w].references) # ExpectedPaths(w)

\* C15: a document the pass has written after reading it successfully holds,
\* outside `references`, exactly the content that was read.
C15_OtherContentPreserved ==
    \A w \in written :
        docsBefore[w].file = "json" =>
            /\ tsconfig[w].file = "json"
            /\ tsconfig[w].other = docsBefore[w].other

\* A document with the user's settings has been rewritten with another
\* `references` value.
C15_Witness ==
    \E w \in written :
        /\ docsBefore[w].file = "json"
        /\ docsBefore[w].other = UserContent
        /\ tsconfig[w].references # docsBefore[w].references
        /\ tsconfig[w].other = UserContent

\* C16: a workspace without local dependencies whose document declares no
\* non-empty references list (missing, unparsable, without the field, or with
\* an empty array) is not written by the pass.
C16_NoWriteWithoutReferences ==
    (running \/ Synchronized) =>
        \A w \in Processed :
            (LocalDependencies(w) = {} /\ RefPaths(docsBefore[w].references) = {}) =>
                w \notin written

-----------------------------------------------------------------------------
(* Properties of the reconciler. *)

\* The last hook invocation: its workspace, descriptor and companion ident.
LastAdd == last.op = "add"
LastRemove == last.op = "remove"
LastCompanion == TypesIdent(last.descriptor.ident)

WasAsked(query) == \E i \in 1..Len(last.queries) : last.queries[i] = query

NoCandidates(answer) == answer.throws \/ Len(answer.candidates) = 0

FourKinds ==
    {"dependencies", "devDependencies", "peerDependencies", "optionalDependencies"}

\* Workspace s depended, when the hook began, on the very descriptor of the
\* event in its regular or development collection and held a companion entry.
Matches(s) ==
    /\ \/ last.descriptor \in pre[s]["dependencies"]
       \/ last.descriptor \in pre[s]["devDependencies"]
    /\ \E k \in FourKinds : Has(pre[s][k], LastCompanion)

\* The selector the companion range is computed from, when there is one: the
\* descriptor's own when it is a semver range, else the first candidate's.
LastSelector ==
    LET own == ParseRangeSelector(last.descriptor.range)
    IN  IF ValidRange(own) THEN own
        ELSE IF NoCandidates(last.answers.original) THEN <<>>
        ELSE ParseRangeSelector(last.answers.original.candidates[1].reference)

\* The event is an addition of an original without bundled declarations for
\* which a companion range is computed.
RangeComputed ==
    /\ LastAdd
    /\ ~InCompanionScope(last.descriptor)
    /\ last.answers.definitelyTyped
    /\ ~Coerce(LastSelector).null

\* C5: when the specifier is a tag and the query that resolves it throws or
\* returns nothing, the addition hook returns without an error and changes no
\* collection.
C5_UnresolvedTagIsSilent ==
    (LastAdd /\ WasAsked(QueryOriginal) /\ NoCandidates(last.answers.original)) =>
        /\ last.result = "returned"
        /\ manifest = pre

FirstMatch ==
    LET i == CHOOSE i \in 1..Len(WorkspaceOrder) :
                 /\ Matches(WorkspaceOrder[i])
                 /\ \A j \in 1..(i - 1) : ~Matches(WorkspaceOrder[j])
    IN  WorkspaceOrder[i]

FreshCase ==
    /\ RangeComputed
    /\ ValidRange(ParseRangeSelector(last.descriptor.range))
    /\ \A s \in Workspaces : ~Matches(s)
    /\ WasAsked(QueryCompanion)
    /\ ~NoCandidates(last.answers.companion)

C7_FreshCompanionAtCaretMajor ==
    FreshCase =>
        MakeDescriptor(LastCompanion,
                       <<Caret, Coerce(ParseRangeSelector(last.descriptor.range)).major>>)
            \in manifest[last.workspace]["devDependencies"]

C7_Witness ==
    /\ FreshCase
    /\ last.descriptor.range = CaretRange
    /\ last.target = "dependencies"
    /\ MakeDescriptor(MakeIdent("types", "foo"), <<"^", "2">>)
           \in manifest[last.workspace]["devDependencies"]
    /\ ~Has(pre[last.workspace]["devDependencies"], LastCompanion)

\* C8: after the removal hook for an original, none of W's four collections
\* holds an entry with the companion ident.
C8_CompanionGoneFromEveryKind ==
    (LastRemove /\ ~InCompanionScope(last.descriptor)) =>
        \A k \in FourKinds : ~Has(manifest[last.workspace][k], LastCompanion)

\* The companion was held under several kinds, with different ranges.
C8_Witness ==
    /\ LastRemove /\ ~InCompanionScope(last.descriptor)
    /\ \E j, k \in FourKinds :
        /\ j # k
        /\ Has(pre[last.workspace][j], LastCompanion)
        /\ Has(pre[last.workspace][k], LastCompanion)
        /\ Get(pre[last.workspace][j], LastCompanion)
               # Get(pre[last.workspace][k], LastCompanion)
    /\ \A k \in FourKinds : ~Has(manifest[last.workspace][k], LastCompanion)

\* The idents of the companion scope that the manifests m hold.
CompanionIdents(m) ==
    {e.ident : e \in {x \in UNION {m[w][k] : w \in Workspaces, k \in FourKinds} :
                          x.ident.scope = "types"}}

\* C9: an event whose descriptor is in the companion scope changes no
\* collection and makes no query, and no manifest ever holds the companion of
\* a companion.
C9_NoCompanionOfCompanion ==
    /\ (last.op # "none" /\ last.descriptor.ident.scope = "types") =>
           /\ manifest = pre
           /\ last.queries = <<>>
           /\ last.result = "returned"
    /\ \A held \in CompanionIdents(manifest) :
           \A other \in CompanionIdents(manifest) \cup CompanionIdents(pre) :
               held # TypesIdent(other)

\* The addition hook has run for a descriptor of the companion scope.
C9_Witness ==
    /\ LastAdd
    /\ last.descriptor.ident = MakeIdent("types", "foo")
    /\ manifest = pre

\* C10: in the fallback path, when the resolver throws or has no candidate for
\* the computed companion, the hook returns normally and changes no collection.
C10_FailedProbeIsSilent ==
    (LastAdd /\ WasAsked(QueryCompanion) /\ NoCandidates(last.answers.companion)) =>
        /\ last.result = "returned"
        /\ manifest = pre

\* The probe returned an empty list after a scan that matched no workspace.
C10_Witness ==
    /\ LastAdd /\ WasAsked(QueryCompanion)
    /\ ~last.answers.companion.throws
    /\ Len(last.answers.companion.candidates) = 0
    /\ \A s \in Workspaces : ~Matches(s)
    /\ last.result = "returned"

\* The manifests the last addition hook would have left had the resolver
\* answered `companion` about the companion.
WithCompanionAnswer(companion) ==
    AfterWorkspaceDependencyAddition(
        pre, last.workspace, last.target, last.descriptor,
        [last.answers EXCEPT !.companion = companion]).manifest

\* C12: when the scan of the addition hook finds a matching workspace, the
\* resolver is not asked about the companion and W receives the companion
\* entry whatever that query would have answered; the query is made only when
\* no workspace of the project matches.
C12_PropagationPrecedesProbe ==
    /\ (RangeComputed /\ \E s \in Workspaces : Matches(s)) =>
           /\ ~WasAsked(QueryCompanion)
           /\ \E k \in FourKinds : Has(manifest[last.workspace][k], LastCompanion)
           /\ \A companion \in ResolverOutcomes :
                  WithCompanionAnswer(companion) = manifest
    /\ (LastAdd /\ WasAsked(QueryCompanion)) => \A s \in Workspaces : ~Matches(s)

\* W held no companion entry and has received one from another workspace
\* without any query about the companion.
C12_Witness ==
    /\ RangeComputed
    /\ \E s \in Workspaces : Matches(s)
    /\ FirstMatch # last.workspace
    /\ \A k \in FourKinds : ~Has(pre[last.workspace][k], LastCompanion)
    /\ \E k \in FourKinds : Has(manifest[last.workspace][k], LastCompanion)
    /\ ~WasAsked(QueryCompanion)
    /\ NoCandidates(last.answers.companion)

\* C13: when several workspaces match the scan, W holds after the hook a
\* companion entry under every kind under which any matching workspace held
\* one, not only under the kinds of the first in iteration order.
C13_EveryMatchCollected ==
    (RangeComputed /\ \E s \in Workspaces : Matches(s)) =>
        \A s \in Workspaces, k \in FourKinds :
            (Matches(s) /\ Has(pre[s][k], LastCompanion)) =>
                Has(manifest[last.workspace][k], LastCompanion)

\* The entries of a collection under idents other than `ident`.
OtherEntries(collection, ident) == {e \in collection : e.ident # ident}

\* The addition took the fallback path and the probe found a candidate.
FreshPath ==
    /\ RangeComputed
    /\ \A s \in Workspaces : ~Matches(s)
    /\ WasAsked(QueryCompanion)
    /\ ~NoCandidates(last.answers.companion)

\* C14: an addition hook on W changes no collection of another workspace and
\* no entry of W under an ident other than the companion's; in the fallback
\* path only the development collection of W changes, whatever the kind the
\* original was added under.
C14_AdditionFrame ==
    LastAdd =>
        /\ \A s \in Workspaces \ {last.workspace} : manifest[s] = pre[s]
        /\ \A k \in FourKinds :
               OtherEntries(manifest[last.workspace][k], LastCompanion)
                   = OtherEntries(pre[last.workspace][k], LastCompanion)
        /\ FreshPath =>
               \A k \in FourKinds \ {"devDependencies"} :
                   manifest[last.workspace][k] = pre[last.workspace][k]

\* An original added under a kind other than development has had its companion
\* added to the development collection.
C14_Witness ==
    /\ FreshPath
    /\ last.target # "devDependencies"
    /\ manifest[last.workspace]["devDependencies"]
           # pre[last.workspace]["devDependencies"]
    /\ \E s \in Workspaces \ {last.workspace}, k \in FourKinds : pre[s][k] # {}

\* Another workspace held, when the hook began, an entry under the ident of
\* the event's descriptor.
SharedOriginal ==
    \E s \in Workspaces \ {last.workspace}, k \in FourKinds :
        Has(pre[s][k], last.descriptor.ident)

\* The manifests as they were when the hook began, with those of the other
\* workspaces replaced by `other`.
WithOthers(other) ==
    [s \in Workspaces |-> IF s = last.workspace THEN pre[s] ELSE other]

\* C17: the removal hook on W makes no query, leaves the collections of every
\* other workspace and W's entries under other idents as they were, leaves W
\* the same collections whatever the other workspaces hold, and removes W's
\* companion entries also while another workspace depends on the original.
C17_RemovalIsLocal ==
    LastRemove =>
        /\ last.queries = <<>>
        /\ last.result = "returned"
        /\ \A s \in Workspaces \ {last.workspace} : manifest[s] = pre[s]
        /\ \A k \in FourKinds :
               OtherEntries(manifest[last.workspace][k], LastCompanion)
                   = OtherEntries(pre[last.workspace][k], LastCompanion)
        /\ \A other \in Profiles :
               AfterWorkspaceDependencyRemoval(
                   WithOthers(other), last.workspace, last.target,
                   last.descriptor).manifest[last.workspace]
                   = manifest[last.workspace]
        /\ (SharedOriginal /\ ~InCompanionScope(last.descriptor)) =>
               \A k \in FourKinds : ~Has(manifest[last.workspace][k], LastCompanion)

\* W has shed its companion while another workspace holds the same original
\* and keeps its own companion.
C17_Witness ==
    /\ LastRemove /\ ~InCompanionScope(last.descriptor)
    /\ \E k \in FourKinds : Has(pre[last.workspace][k], LastCompanion)
    /\ \A k \in FourKinds : ~Has(manifest[last.workspace][k], LastCompanion)
    /\ \E s \in Workspaces \ {last.workspace} :
           /\ \E k \in FourKinds : last.descriptor \in manifest[s][k]
           /\ \E k \in FourKinds : Has(manifest[s][k], LastCompanion)

\* The addition hook invoked once more with the arguments of the last
\* invocation, on the manifests that invocation left.
SecondInvocation(ans) ==
    AfterWorkspaceDependencyAddition(manifest, last.workspace, last.target,
                                     last.descriptor, ans)

\* The answers the collaborators may give that agree with those they gave to
\* the last invocation.
SameAnswers == {a \in Answers : Asked(a, last.queries) = last.answers}

\* C18: invoking the addition hook a second time for the same workspace, kind
\* and descriptor, with the same answers of the collaborators, leaves every
\* collection as the first invocation left it.
C18_AdditionIdempotent ==
    LastAdd => \A a \in SameAnswers : SecondInvocation(a).manifest = manifest

\* The first invocation added the companion through the fallback path, and the
\* scan of the second matches W itself.
C18_Witness ==
    /\ FreshPath
    /\ \A k \in FourKinds : ~Has(pre[last.workspace][k], LastCompanion)
    /\ Has(manifest[last.workspace]["devDependencies"], LastCompanion)
    /\ last.target = "dependencies"
    /\ \A a \in SameAnswers :
           /\ SecondInvocation(a).path = "propagated"
           /\ SecondInvocation(a).manifest = manifest

\* W held no companion entry when the last hook began.
HeldNoCompanion ==
    \A k \in FourKinds : ~Has(pre[last.workspace][k], LastCompanion)

\* The removal hook for the original of the last addition, run on W right
\* after that addition.
RemovalAfter(m) ==
    AfterWorkspaceDependencyRemoval(m, last.workspace, last.target,
                                    last.descriptor).manifest

\* What `yarn remove` does to the manifests before its hook runs.
WithoutOriginal(m) ==
    [m EXCEPT ![last.workspace][last.target] = DeleteEntry(@, last.descriptor.ident)]

\* C19: when W holds no companion entry, the addition hook for an original on
\* W followed by the removal hook for the same original on W leaves every
\* collection of every workspace as it was before the addition hook, whatever
\* path the addition took; so it is with the command's own removal of the
\* original in between.
C19_AddRemoveRoundTrip ==
    (LastAdd /\ HeldNoCompanion) =>
        /\ RemovalAfter(manifest) = pre
        /\ RemovalAfter(WithoutOriginal(manifest)) = WithoutOriginal(pre)

\* The addition gave W, through propagation, companion entries under two
\* kinds, and the removal takes them all away.
C19_Witness ==
    /\ RangeComputed /\ HeldNoCompanion
    /\ \E j, k \in FourKinds :
           /\ j # k
           /\ Has(manifest[last.workspace][j], LastCompanion)
           /\ Has(manifest[last.workspace][k], LastCompanion)
    /\ RemovalAfter(manifest) = pre

-----------------------------------------------------------------------------
(* Properties of the publish adjuster. *)

\* The publish-override section of the payload holds the field.
Overrides(raw, field) ==
    raw.publishConfig.present /\ raw.publishConfig[field] # Absent

\* C11: after beforeWorkspacePacking, each of the top-level `typings` and
\* `types` equals its override whenever the publish-override section holds that
\* field, and is exactly what it was (unset stays unset) when it does not.
C11_OverridesCopied ==
    packs > 0 =>
        \A field \in {"typings", "types"} :
            IF Overrides(rawBefore, field)
            THEN rawManifest[field] = rawBefore.publishConfig[field]
            ELSE rawManifest[field] = rawBefore[field]

====
